---------------------------- MODULE Spec2Model ----------------------------
(***************************************************************************)
(* A model of pyautocad.utils: the MText string functions                  *)
(* (unformat_mtext, mtext_to_string, string_to_mtext), the context manager *)
(* suppressed_regeneration_of, ensure_layer and delete_entities_by_layer.  *)
(* Strings are sequences of one-character strings.                         *)
(***************************************************************************)
EXTENDS Integers, Sequences, FiniteSets, TLC

VARIABLES
    arg,            \* the string passed to the text function under study
    exclude_list,   \* unformat_mtext's exclude_list argument (a set of tags)
    ret,            \* the value returned by the last call
    fn,             \* the last function called ("none" before any call)
    literal,        \* grammar-built input: the text expected to be literal
    malformedAt,    \* grammar-built input: where in literal the unterminated
                    \* directive starts, 0 when there is none
    open            \* grammar-built input: no directive has followed the
                    \* unterminated one yet

VARIABLES
    RegenerateTableSuppressed,  \* table -> the table's flag
    scopes,         \* the with-blocks entered and not yet left, innermost last:
                    \* the table of each, and whether a block on the same table
                    \* was entered inside it
    exc,            \* an exception raised in a block body is propagating
    cells,          \* table -> the cells the block bodies have filled
    lastExit        \* the block the last step left, and how (NoExit otherwise)

VARIABLES
    Layers,         \* doc.Layers: layer name -> its Color, NoLayer when absent
    addCount,       \* layer name -> the number of Layers.Add calls for it
    lastCall        \* the last ensure_layer call and what it returned

VARIABLES
    ModelSpace,     \* doc.ModelSpace: the sequence of entities
    initialSpace,   \* doc.ModelSpace when delete_entities_by_layer was called
    layer_name,     \* delete_entities_by_layer's layer_name argument
    idx,            \* the number of entities the for loop's iterator has passed
    pc,             \* "loop" inside delete_entities_by_layer, "done" after it
    deleted         \* the ids of the entities Delete was called on

textVars == <<arg, exclude_list, ret, fn, literal, malformedAt, open>>
tableVars == <<RegenerateTableSuppressed, scopes, exc, cells, lastExit>>
layerVars == <<Layers, addCount, lastCall>>
spaceVars == <<ModelSpace, initialSpace, layer_name, idx, pc, deleted>>

vars == <<textVars, tableVars, layerVars, spaceVars>>

-----------------------------------------------------------------------------
(* Bounds *)

MaxLen == 6         \* longest input string drawn in Init
MaxInput == 7       \* longest input string built from pieces
MaxDepth == 3       \* with-blocks open at a time
MaxCells == 2       \* cells a block body fills in a table
MaxEntities == 4    \* entities in the model space

-----------------------------------------------------------------------------
(* Characters *)

BS == "\\"
NL == "\n"

MarkupAlphabet == {"{", "}", BS, ";", "P", "f"}
PlainAlphabet == {"a", "P", ";", NL, BS}

DefaultExclude == {"P", "S"}
ExclusionSets == {DefaultExclude, {"f"}, {"P", "f"}}

Strings(A, n) == UNION {[1..k -> A] : k \in 0..n}

-----------------------------------------------------------------------------
(* re.sub(r'\{?\\[^%s][^;]+;' % ''.join(exclude_list), '', s) *)

\* [^;]+ : the length of the longest run of non-semicolons starting at p
RECURSIVE RunLen(_, _)
RunLen(s, p) ==
    IF p <= Len(s) /\ s[p] # ";" THEN 1 + RunLen(s, p + 1) ELSE 0

\* \\[^%s][^;]+; tried at position b: the index of the last character matched,
\* 0 when there is no match.  The run [^;]+ is greedy and gives characters back
\* until ';' matches.
MatchFrom(s, b, ex) ==
    IF b + 1 <= Len(s) /\ s[b] = BS /\ s[b + 1] \notin ex
    THEN LET r == RunLen(s, b + 2)
             ks == {k \in 1..r : b + 2 + k <= Len(s) /\ s[b + 2 + k] = ";"}
         IN  IF ks = {} THEN 0
             ELSE b + 2 + (CHOOSE k \in ks : \A j \in ks : j <= k)
    ELSE 0

\* the pattern without its leading \{?
MatchEnd_NoBrace(s, i, ex) == MatchFrom(s, i, ex)

\* \{? : the brace is taken when present, and given back when the rest fails
MatchEnd(s, i, ex) ==
    IF i <= Len(s) /\ s[i] = "{" /\ MatchFrom(s, i + 1, ex) # 0
    THEN MatchFrom(s, i + 1, ex)
    ELSE MatchFrom(s, i, ex)

\* the indices of s that re.sub keeps, scanning from position i: leftmost
\* matches, not overlapping
RECURSIVE KeptFrom(_, _, _)
KeptFrom(s, i, ex) ==
    IF i > Len(s) THEN {}
    ELSE LET e == MatchEnd(s, i, ex)
         IN  IF e # 0 THEN KeptFrom(s, e + 1, ex)
             ELSE {i} \cup KeptFrom(s, i + 1, ex)

\* the subsequence of s at the indices in K
RECURSIVE Pick(_, _, _)
Pick(s, K, i) ==
    IF i > Len(s) THEN <<>>
    ELSE (IF i \in K THEN <<s[i]>> ELSE <<>>) \o Pick(s, K, i + 1)

SubDirectives(s, ex) == Pick(s, KeptFrom(s, 1, ex), 1)

\* re.sub(r'\}', '', s)
IsNotBrace(c) == c # "}"
\* re.sub(r'\}', '', s, count=1)
SubBraces_FirstOnly(s) ==
    IF \E i \in 1..Len(s) : s[i] = "}"
    THEN LET i == CHOOSE k \in 1..Len(s) :
                      s[k] = "}" /\ \A j \in 1..(k - 1) : s[j] # "}"
         IN  SubSeq(s, 1, i - 1) \o SubSeq(s, i + 1, Len(s))
    ELSE s

SubBraces(s) == SelectSeq(s, IsNotBrace)

unformat_mtext(s, ex) == SubBraces(SubDirectives(s, ex))

-----------------------------------------------------------------------------
(* str.replace(old, new): leftmost occurrences, not overlapping *)

StartsAt(s, i, old) ==
    /\ i + Len(old) - 1 <= Len(s)
    /\ \A k \in 1..Len(old) : s[i + k - 1] = old[k]

RECURSIVE ReplaceFrom(_, _, _, _)
ReplaceFrom(s, i, old, new) ==
    IF i > Len(s) THEN <<>>
    ELSE IF StartsAt(s, i, old)
         THEN new \o ReplaceFrom(s, i + Len(old), old, new)
         ELSE <<s[i]>> \o ReplaceFrom(s, i + 1, old, new)

\* str.replace(old, new, 1)
replace_FirstOnly(s, old, new) ==
    IF \E i \in 1..Len(s) : StartsAt(s, i, old)
    THEN LET i == CHOOSE k \in 1..Len(s) :
                      StartsAt(s, k, old) /\ \A j \in 1..(k - 1) : ~StartsAt(s, j, old)
         IN  SubSeq(s, 1, i - 1) \o new \o SubSeq(s, i + Len(old), Len(s))
    ELSE s

replace(s, old, new) == ReplaceFrom(s, 1, old, new)

mtext_to_string(s) == replace(unformat_mtext(s, DefaultExclude), <<BS, "P">>, <<NL>>)

\* the two replacements in the other order
string_to_mtext_NewlinesFirst(s) ==
    replace(replace(s, <<NL>>, <<BS, "P">>), <<BS>>, <<BS, BS>>)

string_to_mtext(s) == replace(replace(s, <<BS>>, <<BS, BS>>), <<NL>>, <<BS, "P">>)

-----------------------------------------------------------------------------
(* The parts of the state a specification does not use *)

TextIdle ==
    /\ arg = <<>>
    /\ exclude_list = DefaultExclude
    /\ ret = <<>>
    /\ fn = "none"
    /\ literal = <<>>
    /\ malformedAt = 0
    /\ open = FALSE

Tables == {"t1", "t2"}
NoExit == [table |-> "", raised |-> FALSE]

TableIdle ==
    /\ RegenerateTableSuppressed = [t \in Tables |-> FALSE]
    /\ scopes = <<>>
    /\ exc = FALSE
    /\ cells = [t \in Tables |-> 0]
    /\ lastExit = NoExit

LayerNames == {"0", "Walls", "Doors"}
Colors == {1, 7, 256}

NoCall ==
    [called |-> FALSE, layer_name |-> "", color_index |-> 0, before |-> {},
     added |-> FALSE, returned |-> {}]

LayerIdle ==
    /\ Layers = <<>>
    /\ addCount = [n \in LayerNames |-> 0]
    /\ lastCall = NoCall

SpaceIdle ==
    /\ ModelSpace = <<>>
    /\ initialSpace = <<>>
    /\ layer_name = ""
    /\ idx = 0
    /\ pc = "done"
    /\ deleted = {}

-----------------------------------------------------------------------------
(* unformat_mtext (default exclusion set) and mtext_to_string on every markup
   string *)

Init ==
    /\ arg \in Strings(MarkupAlphabet, MaxLen)
    /\ exclude_list = DefaultExclude
    /\ ret = <<>>
    /\ fn = "none"
    /\ literal = <<>>
    /\ malformedAt = 0
    /\ open = FALSE
    /\ TableIdle /\ LayerIdle /\ SpaceIdle

CallUnformatMtext(ex) ==
    /\ fn = "none"
    /\ exclude_list' = ex
    /\ ret' = unformat_mtext(arg, ex)
    /\ fn' = "unformat_mtext"
    /\ UNCHANGED <<arg, literal, malformedAt, open>>
    /\ UNCHANGED <<tableVars, layerVars, spaceVars>>

CallMtextToString ==
    /\ fn = "none"
    /\ ret' = mtext_to_string(arg)
    /\ fn' = "mtext_to_string"
    /\ UNCHANGED <<arg, exclude_list, literal, malformedAt, open>>
    /\ UNCHANGED <<tableVars, layerVars, spaceVars>>

Next ==
    \/ CallUnformatMtext(DefaultExclude)
    \/ CallMtextToString

Spec == Init /\ [][Next]_vars

-----------------------------------------------------------------------------
(* unformat_mtext with each exclusion set on every markup string *)

NextExclude == \E ex \in ExclusionSets : CallUnformatMtext(ex)

SpecExclude == Init /\ [][NextExclude]_vars

-----------------------------------------------------------------------------
(* string_to_mtext on every plain string, and mtext_to_string on its result *)

InitPlain ==
    /\ arg \in Strings(PlainAlphabet, MaxLen)
    /\ exclude_list = DefaultExclude
    /\ ret = <<>>
    /\ fn = "none"
    /\ literal = <<>>
    /\ malformedAt = 0
    /\ open = FALSE
    /\ TableIdle /\ LayerIdle /\ SpaceIdle

CallStringToMtext ==
    /\ fn = "none"
    /\ ret' = string_to_mtext(arg)
    /\ fn' = "string_to_mtext"
    /\ UNCHANGED <<arg, exclude_list, literal, malformedAt, open>>
    /\ UNCHANGED <<tableVars, layerVars, spaceVars>>

\* mtext_to_string(string_to_mtext(arg))
CallMtextToStringOnResult ==
    /\ fn = "string_to_mtext"
    /\ ret' = mtext_to_string(ret)
    /\ fn' = "round_trip"
    /\ UNCHANGED <<arg, exclude_list, literal, malformedAt, open>>
    /\ UNCHANGED <<tableVars, layerVars, spaceVars>>

NextPlain ==
    \/ CallStringToMtext
    \/ CallMtextToStringOnResult

SpecPlain == InitPlain /\ [][NextPlain]_vars

-----------------------------------------------------------------------------
(* unformat_mtext on inputs built from literal text, directives and '}' *)

LiteralChars == MarkupAlphabet \ {BS, "{", "}"}
TagChars == MarkupAlphabet \ DefaultExclude
PayloadChars == MarkupAlphabet \ {";"}
\* the payloads that leave room for n more characters after s
Payloads(s, n) == Strings(PayloadChars, MaxInput - Len(s) - n) \ {<<>>}
PlainPayloads(s, n) == Strings({"f", "P"}, MaxInput - Len(s) - n) \ {<<>>}

InitGrammar == TextIdle /\ TableIdle /\ LayerIdle /\ SpaceIdle

AppendLiteral(c) ==
    /\ fn = "none"
    /\ Len(arg) + 1 <= MaxInput
    /\ open => c # ";"
    /\ arg' = Append(arg, c)
    /\ literal' = Append(literal, c)
    /\ UNCHANGED <<exclude_list, ret, fn, malformedAt, open>>
    /\ UNCHANGED <<tableVars, layerVars, spaceVars>>

AppendDirective(brace, tag, payload) ==
    LET d == (IF brace THEN <<"{">> ELSE <<>>) \o <<BS, tag>> \o payload \o <<";">>
    IN  /\ fn = "none"
        /\ Len(arg) + Len(d) <= MaxInput
        /\ arg' = arg \o d
        /\ open' = FALSE
        /\ UNCHANGED <<exclude_list, ret, fn, literal, malformedAt>>
        /\ UNCHANGED <<tableVars, layerVars, spaceVars>>

AppendClosingBrace ==
    /\ fn = "none"
    /\ Len(arg) + 1 <= MaxInput
    /\ arg' = Append(arg, "}")
    /\ UNCHANGED <<exclude_list, ret, fn, literal, malformedAt, open>>
    /\ UNCHANGED <<tableVars, layerVars, spaceVars>>

\* a directive without its ';': it is expected to stay, as literal text
AppendMalformed(tag, payload) ==
    LET d == <<BS, tag>> \o payload
    IN  /\ fn = "none"
        /\ malformedAt = 0
        /\ Len(arg) + Len(d) <= MaxInput
        /\ arg' = arg \o d
        /\ literal' = literal \o d
        /\ malformedAt' = Len(literal) + 1
        /\ open' = TRUE
        /\ UNCHANGED <<exclude_list, ret, fn>>
        /\ UNCHANGED <<tableVars, layerVars, spaceVars>>

NextGrammar ==
    \/ \E c \in LiteralChars : AppendLiteral(c)
    \/ \E brace \in BOOLEAN, tag \in TagChars, payload \in Payloads(arg, 3) :
           AppendDirective(brace, tag, payload)
    \/ AppendClosingBrace
    \/ CallUnformatMtext(DefaultExclude)

SpecGrammar == InitGrammar /\ [][NextGrammar]_vars

NextMalformed ==
    \/ NextGrammar
    \/ \E payload \in PlainPayloads(arg, 2) : AppendMalformed("f", payload)

SpecMalformed == InitGrammar /\ [][NextMalformed]_vars

-----------------------------------------------------------------------------
(* with suppressed_regeneration_of(table): ... *)

Top == scopes[Len(scopes)]
Pop == SubSeq(scopes, 1, Len(scopes) - 1)

InitTable == TextIdle /\ TableIdle /\ LayerIdle /\ SpaceIdle

\* table.RegenerateTableSuppressed = True, then the body starts at the yield
Enter(table) ==
    /\ ~exc
    /\ Len(scopes) < MaxDepth
    /\ RegenerateTableSuppressed' = [RegenerateTableSuppressed EXCEPT ![table] = TRUE]
    /\ scopes' = Append([i \in 1..Len(scopes) |->
                             IF scopes[i].table = table
                             THEN [scopes[i] EXCEPT !.nested = TRUE]
                             ELSE scopes[i]],
                         [table |-> table, nested |-> FALSE])
    /\ lastExit' = NoExit
    /\ UNCHANGED <<exc, cells>>
    /\ UNCHANGED <<textVars, layerVars, spaceVars>>

\* the body of the innermost block fills a cell of its table
Body ==
    /\ ~exc
    /\ scopes # <<>>
    /\ cells[Top.table] < MaxCells
    /\ cells' = [cells EXCEPT ![Top.table] = @ + 1]
    /\ lastExit' = NoExit
    /\ UNCHANGED <<RegenerateTableSuppressed, scopes, exc>>
    /\ UNCHANGED <<textVars, layerVars, spaceVars>>

\* the body of the innermost block raises
Raise ==
    /\ ~exc
    /\ scopes # <<>>
    /\ exc' = TRUE
    /\ lastExit' = NoExit
    /\ UNCHANGED <<RegenerateTableSuppressed, scopes, cells>>
    /\ UNCHANGED <<textVars, layerVars, spaceVars>>

\* the body ends: the generator resumes after the yield and runs finally
ExitNormal ==
    /\ ~exc
    /\ scopes # <<>>
    /\ RegenerateTableSuppressed' = [RegenerateTableSuppressed EXCEPT ![Top.table] = FALSE]
    /\ scopes' = Pop
    /\ lastExit' = [table |-> Top.table, raised |-> FALSE]
    /\ UNCHANGED <<exc, cells>>
    /\ UNCHANGED <<textVars, layerVars, spaceVars>>

\* the exception leaves the block with no finally clause around the yield
ExitRaise_NoFinally ==
    /\ exc
    /\ scopes # <<>>
    /\ scopes' = Pop
    /\ lastExit' = [table |-> Top.table, raised |-> TRUE]
    /\ UNCHANGED <<RegenerateTableSuppressed, exc, cells>>
    /\ UNCHANGED <<textVars, layerVars, spaceVars>>

\* the exception is thrown into the generator at the yield: finally runs and
\* the exception goes on to the enclosing block
ExitRaise ==
    /\ exc
    /\ scopes # <<>>
    /\ RegenerateTableSuppressed' = [RegenerateTableSuppressed EXCEPT ![Top.table] = FALSE]
    /\ scopes' = Pop
    /\ lastExit' = [table |-> Top.table, raised |-> TRUE]
    /\ UNCHANGED <<exc, cells>>
    /\ UNCHANGED <<textVars, layerVars, spaceVars>>

\* a handler of the caller's, around a block or at the top level
Catch ==
    /\ exc
    /\ exc' = FALSE
    /\ lastExit' = NoExit
    /\ UNCHANGED <<RegenerateTableSuppressed, scopes, cells>>
    /\ UNCHANGED <<textVars, layerVars, spaceVars>>

NextTable ==
    \/ \E table \in Tables : Enter(table)
    \/ Body
    \/ Raise
    \/ ExitNormal
    \/ ExitRaise
    \/ Catch

SpecTable == InitTable /\ [][NextTable]_vars

-----------------------------------------------------------------------------
(* ensure_layer(doc, layer_name, color_index) *)

InitLayers ==
    /\ Layers \in UNION {[S -> {7}] : S \in SUBSET LayerNames}
    /\ addCount = [n \in LayerNames |-> 0]
    /\ lastCall = NoCall
    /\ TextIdle /\ TableIdle /\ SpaceIdle

\* layers.Item(name): the layer, nothing when there is none
Item(layers, name) ==
    IF name \in DOMAIN layers THEN {[Name |-> name, Color |-> layers[name]]} ELSE {}

\* layer = layers.Add(name); layer.Color = color
AddWithColor(layers, name, color) ==
    [n \in DOMAIN layers \cup {name} |-> IF n = name THEN color ELSE layers[n]]

\* layer.Color = color_index outside the if
ensure_layer_AlwaysColor(name, color_index) ==
    LET present == Item(Layers, name) # {}
        after == AddWithColor(Layers, name, color_index)
    IN  /\ Layers' = after
        /\ addCount' = [addCount EXCEPT ![name] = IF present THEN @ ELSE @ + 1]
        /\ lastCall' = [called |-> TRUE, layer_name |-> name,
                        color_index |-> color_index,
                        before |-> Item(Layers, name), added |-> ~present,
                        returned |-> Item(after, name)]
        /\ UNCHANGED <<textVars, tableVars, spaceVars>>

ensure_layer(name, color_index) ==
    LET present == Item(Layers, name) # {}
        after == IF present THEN Layers ELSE AddWithColor(Layers, name, color_index)
    IN  /\ Layers' = after
        /\ addCount' = [addCount EXCEPT ![name] = IF present THEN @ ELSE @ + 1]
        /\ lastCall' = [called |-> TRUE, layer_name |-> name,
                        color_index |-> color_index,
                        before |-> Item(Layers, name), added |-> ~present,
                        returned |-> Item(after, name)]
        /\ UNCHANGED <<textVars, tableVars, spaceVars>>

NextLayers == \E name \in LayerNames, color_index \in Colors : ensure_layer(name, color_index)

SpecLayers == InitLayers /\ [][NextLayers]_vars

-----------------------------------------------------------------------------
(* delete_entities_by_layer(doc, layer_name) *)

SpaceLayers == {"A", "B"}

InitSpace ==
    /\ \E k \in 0..MaxEntities : \E f \in [1..k -> SpaceLayers] :
           ModelSpace = [i \in 1..k |-> [id |-> i, Layer |-> f[i]]]
    /\ initialSpace = ModelSpace
    /\ layer_name \in SpaceLayers
    /\ idx = 0
    /\ pc = "loop"
    /\ deleted = {}
    /\ TextIdle /\ TableIdle /\ LayerIdle

\* entity.Delete(): the entity leaves the collection, the later ones move up
Delete(space, i) == SubSeq(space, 1, i - 1) \o SubSeq(space, i + 1, Len(space))

\* one turn of the for loop: the iterator hands out the entity at its position
\* in the collection as it is now, and moves one position on
IterNext ==
    /\ pc = "loop"
    /\ idx < Len(ModelSpace)
    /\ LET entity == ModelSpace[idx + 1]
       IN  IF entity.Layer = layer_name
           THEN /\ ModelSpace' = Delete(ModelSpace, idx + 1)
                /\ deleted' = deleted \cup {entity.id}
           ELSE UNCHANGED <<ModelSpace, deleted>>
    /\ idx' = idx + 1
    /\ UNCHANGED <<initialSpace, layer_name, pc>>
    /\ UNCHANGED <<textVars, tableVars, layerVars>>

\* the iterator is past the end of the collection: the loop and the call end
IterStop ==
    /\ pc = "loop"
    /\ idx >= Len(ModelSpace)
    /\ pc' = "done"
    /\ UNCHANGED <<ModelSpace, initialSpace, layer_name, idx, deleted>>
    /\ UNCHANGED <<textVars, tableVars, layerVars>>

NextSpace ==
    \/ IterNext
    \/ IterStop

SpecSpace == InitSpace /\ [][NextSpace]_vars

-----------------------------------------------------------------------------
(* Properties of the markup functions *)

Chars(s) == {s[i] : i \in 1..Len(s)}

\* s[b..j] is backslash, tag, a non-empty run of non-semicolons, ';'
IsDirectiveAt(s, b, j) ==
    /\ 1 <= b /\ b + 3 <= j /\ j <= Len(s)
    /\ s[b] = BS
    /\ s[j] = ";"
    /\ \A k \in (b + 2)..(j - 1) : s[k] # ";"

HasDirective(s, ex) ==
    \E b \in 1..Len(s), j \in 1..Len(s) : IsDirectiveAt(s, b, j) /\ s[b + 1] \notin ex

IsSubstringAt(d, s, p) ==
    /\ p + Len(d) - 1 <= Len(s)
    /\ \A k \in 1..Len(d) : s[p + k - 1] = d[k]

IsSubstring(d, s) == \E p \in 1..(Len(s) + 1) : IsSubstringAt(d, s, p)

\* a directive whose payload is plain text, not preceded by a backslash
IsPlainDirectiveAt(s, b, j) ==
    /\ IsDirectiveAt(s, b, j)
    /\ \A k \in (b + 2)..(j - 1) : s[k] \notin {BS, "{", "}"}
    /\ (b > 1 => s[b - 1] # BS)

\* C2: after unformat_mtext(arg, exclude_list), every directive of arg whose
\* tag is in exclude_list appears unchanged in the result (with its opening
\* brace when it has one), and for every directive whose tag is not in
\* exclude_list the result is shorter than arg by at least that directive.
C2_ExcludedSurviveOthersRemoved ==
    fn = "unformat_mtext" =>
        \A b \in 1..Len(arg), j \in 1..Len(arg) :
            IsPlainDirectiveAt(arg, b, j) =>
                IF arg[b + 1] \in exclude_list
                THEN /\ IsSubstring(SubSeq(arg, b, j), ret)
                     /\ (b > 1 /\ arg[b - 1] = "{" =>
                            IsSubstring(SubSeq(arg, b - 1, j), ret))
                ELSE Len(ret) <= Len(arg) - (j - b + 1)

\* no backslash of s is followed, two characters later, by ';'
NoEmptyPayload(s) ==
    \A i \in 1..Len(s) : s[i] = BS /\ i + 2 <= Len(s) => s[i + 2] # ";"

\* C3 as stated: for every input, the result of unformat_mtext with the
\* default exclusion set contains no '}' and no directive, and applying
\* unformat_mtext to it changes nothing.
C3_OutputHasNoDirective ==
    fn = "unformat_mtext" /\ exclude_list = DefaultExclude =>
        /\ "}" \notin Chars(ret)
        /\ ~HasDirective(ret, DefaultExclude)
        /\ unformat_mtext(ret, DefaultExclude) = ret

\* C3 as amended: for every input, the result of unformat_mtext with the
\* default exclusion set contains no '}'; and when no backslash of the input
\* is followed two characters later by ';', the result contains no directive
\* and applying unformat_mtext to it changes nothing.
C3_NoBraceAndFixedPoint ==
    fn = "unformat_mtext" /\ exclude_list = DefaultExclude =>
        /\ "}" \notin Chars(ret)
        /\ NoEmptyPayload(arg) =>
              /\ ~HasDirective(ret, DefaultExclude)
              /\ unformat_mtext(ret, DefaultExclude) = ret

C3_Witness ==
    /\ fn = "unformat_mtext" /\ exclude_list = DefaultExclude
    /\ NoEmptyPayload(arg)
    /\ HasDirective(arg, DefaultExclude)
    /\ Cardinality({i \in 1..Len(arg) : arg[i] = "}"}) >= 2
    /\ BS \in Chars(ret)

\* the paragraph tokens of u each replaced by one newline, position by position
RECURSIVE ParagraphsResolved(_, _)
ParagraphsResolved(u, i) ==
    IF i > Len(u) THEN <<>>
    ELSE IF StartsAt(u, i, <<BS, "P">>) THEN <<NL>> \o ParagraphsResolved(u, i + 2)
         ELSE <<u[i]>> \o ParagraphsResolved(u, i + 1)

HasParagraphToken(s) == \E i \in 1..Len(s) : StartsAt(s, i, <<BS, "P">>)

TokenCount(s) == Cardinality({i \in 1..Len(s) : StartsAt(s, i, <<BS, "P">>)})

\* C5: mtext_to_string returns unformat_mtext(arg) (default exclusion set) with
\* every paragraph token replaced by one newline, and the result contains no
\* paragraph token.
C5_ParagraphsBecomeNewlines ==
    fn = "mtext_to_string" =>
        LET u == unformat_mtext(arg, DefaultExclude)
        IN  /\ ret = ParagraphsResolved(u, 1)
            /\ Len(ret) = Len(u) - TokenCount(u)
            /\ ~HasParagraphToken(ret)

C5_Witness ==
    /\ fn = "mtext_to_string"
    /\ TokenCount(arg) >= 2
    /\ Cardinality({i \in 1..Len(ret) : ret[i] = NL}) >= 2

-----------------------------------------------------------------------------
(* Properties of string_to_mtext and of the round trip *)

\* backslash -> two backslashes, newline -> backslash P, character by character
RECURSIVE EscapeEach(_, _)
EscapeEach(s, i) ==
    IF i > Len(s) THEN <<>>
    ELSE (IF s[i] = BS THEN <<BS, BS>>
          ELSE IF s[i] = NL THEN <<BS, "P">>
          ELSE <<s[i]>>) \o EscapeEach(s, i + 1)

\* C4: for every plain string of literal characters, newlines and
\* backslashes, mtext_to_string(string_to_mtext(s)) = s.
C4_RoundTripExact ==
    fn = "round_trip" => ret = arg

\* C6: string_to_mtext(s) is s with every backslash doubled and every newline
\* replaced by backslash P, character by character: the backslash of a
\* paragraph token is never doubled.
C6_CharacterByCharacter ==
    fn = "string_to_mtext" => ret = EscapeEach(arg, 1)

C6_Witness ==
    /\ fn = "string_to_mtext"
    /\ BS \in Chars(arg) /\ NL \in Chars(arg)
    /\ IsSubstring(<<BS, BS, BS, "P">>, ret)

-----------------------------------------------------------------------------
(* Properties of unformat_mtext on inputs built from pieces *)

IsSuffix(d, s) ==
    /\ Len(d) <= Len(s)
    /\ SubSeq(s, Len(s) - Len(d) + 1, Len(s)) = d

\* C1: for an input built from literal text (no backslash, no brace),
\* well-formed directives with a tag other than P and S, and closing braces,
\* unformat_mtext with the default exclusion set returns the literal text
\* pieces concatenated in order.
C1_LiteralTextOnly ==
    fn = "unformat_mtext" => ret = literal

C1_Witness ==
    /\ fn = "unformat_mtext"
    /\ Len(arg) >= 7
    /\ arg[1] = "{" /\ arg[Len(arg)] = "}"
    /\ Len(literal) >= 1
    /\ ret = literal

\* C9: when the input holds a directive without its own ';', followed by
\* literal text or by further directives, the result of unformat_mtext ends
\* with that directive's characters and the literal text after it, unchanged.
C9_MalformedLeftAsLiteral ==
    fn = "unformat_mtext" /\ malformedAt > 0 =>
        IsSuffix(SubSeq(literal, malformedAt, Len(literal)), ret)

-----------------------------------------------------------------------------
(* Properties of suppressed_regeneration_of *)

\* C7 as stated: the flag of a table is true while the body of a block on it
\* runs, whatever blocks were entered and left inside it, and false right
\* after a block on it is left, normally or by an exception.
C7_TrueInBodyFalseAfter ==
    /\ ~exc => \A i \in 1..Len(scopes) : RegenerateTableSuppressed[scopes[i].table]
    /\ lastExit # NoExit => ~RegenerateTableSuppressed[lastExit.table]

\* C7 as amended: the flag of a table is true throughout the body of a block
\* on it inside which no other block on the same table was entered, and false
\* right after any block on it is left, normally or by an exception.
C7_TrueInUnnestedBodyFalseAfter ==
    /\ \A i \in 1..Len(scopes) :
           ~scopes[i].nested => RegenerateTableSuppressed[scopes[i].table]
    /\ lastExit # NoExit => ~RegenerateTableSuppressed[lastExit.table]

C7_Witness ==
    /\ lastExit = [table |-> "t1", raised |-> TRUE]
    /\ Len(scopes) = 1
    /\ scopes[1] = [table |-> "t2", nested |-> FALSE]
    /\ RegenerateTableSuppressed["t2"]
    /\ cells["t1"] > 0

-----------------------------------------------------------------------------
(* Properties of ensure_layer *)

\* C8: in any sequence of ensure_layer calls a layer of a given name is added
\* at most once; a call for a name that exists adds nothing, leaves that
\* layer's colour as it was and returns the existing layer.
C8_EnsureLayerIdempotent ==
    /\ \A n \in LayerNames : addCount[n] <= 1
    /\ lastCall.called /\ lastCall.before # {} =>
           /\ ~lastCall.added
           /\ Item(Layers, lastCall.layer_name) = lastCall.before
           /\ lastCall.returned = lastCall.before

C8_Witness ==
    /\ lastCall.called
    /\ addCount[lastCall.layer_name] = 1
    /\ ~lastCall.added
    /\ \E l \in lastCall.before : l.Color # lastCall.color_index

-----------------------------------------------------------------------------
(* Properties of delete_entities_by_layer *)

\* C10: when delete_entities_by_layer has returned, no entity on layer_name is
\* left in the model space, and every entity on another layer is still there
\* and was never deleted.
C10_AllOnLayerDeletedOthersKept ==
    pc = "done" /\ layer_name # "" =>
        /\ \A i \in 1..Len(ModelSpace) : ModelSpace[i].Layer # layer_name
        /\ \A i \in 1..Len(initialSpace) :
               initialSpace[i].Layer # layer_name =>
                   /\ initialSpace[i].id \notin deleted
                   /\ \E j \in 1..Len(ModelSpace) : ModelSpace[j] = initialSpace[i]

=============================================================================
